---------------------------- MODULE Spec2Model ----------------------------
(***************************************************************************)
(* Feldman verifiable secret sharing (feldman_vss.rs) and the secp256k1    *)
(* key codecs (secp256_k1.rs) of the curv library.                         *)
(*                                                                         *)
(* The library is a set of stateless functions.  The state of the model is *)
(* one dealer run (the sharing that `share` returned, with the dealer's    *)
(* polynomial kept as history) and the last library call with its          *)
(* arguments and its outcome.  A Rust panic (assert!, unwrap on None/Err,  *)
(* slice index out of bounds) is the outcome Abort.                        *)
(*                                                                         *)
(* The scalar field FE and the group GE are used by feldman_vss.rs through *)
(* the ECScalar / ECPoint traits; they are modelled as the prime field Z_Q *)
(* and the cyclic group of order Q generated by G, with a small prime Q.   *)
(* A group element is represented by its discrete logarithm to the base G, *)
(* so that equality of elements is equality of representations.            *)
(***************************************************************************)
EXTENDS Integers, Sequences, FiniteSets

VARIABLES vss, secret, poly, secret_shares, call, ret

vars == <<vss, secret, poly, secret_shares, call, ret>>

(***************************************************************************)
(* Bounds of the model.                                                    *)
(***************************************************************************)
\* largest threshold t handed to share
MaxT == 2
\* largest share count n handed to share (kept below Q: evaluation points
\* 1..n are distinct nonzero field elements, as they are for the real order)
MaxN == 4

(***************************************************************************)
(* Outcomes of a call.                                                     *)
(***************************************************************************)
Ret(v) == [tag |-> "ok", val |-> v]
Abort == [tag |-> "panic"]
NoRet == [tag |-> "none"]
\* Result<(), ErrorSS>
Ok == [tag |-> "Ok"]
Err(e) == [tag |-> "Err", err |-> e]
NoVSS == [threshold |-> 0, share_count |-> 0, commitments |-> <<>>]
NoCall == [fn |-> "none"]

(***************************************************************************)
(* ScalarField Z_Q and CurveGroup <G> of order Q.                          *)
(***************************************************************************)
Q == 7
FE == 0 .. (Q - 1)
GE == 0 .. (Q - 1)
\* ECScalar::new_random: a nonzero scalar
RandomFE == 1 .. (Q - 1)
\* ECScalar::from(&BigInt): the integer reduced modulo the group order
fe_from(n) == n % Q
fe_add(a, b) == (a + b) % Q
fe_sub(a, b) == ((a - b) + Q) % Q
fe_mul(a, b) == (a * b) % Q
\* defined for a # 0 only; callers abort on zero
fe_invert(a) == CHOOSE b \in FE : (a * b) % Q = 1
\* ECPoint::generator
generator == 1
ge_add(P, R) == (P + R) % Q
ge_mul(P, k) == (P * k) % Q

(***************************************************************************)
(* feldman_vss.rs                                                          *)
(***************************************************************************)
\* reconstruct_limit without the + 1
reconstruct_limit_short(v) == v.threshold

reconstruct_limit(v) == v.threshold + 1

\* coefficients[1] is coef0; rnd are the t draws of new_random, in order
sample_polynomial(t, coef0, rnd) == <<coef0>> \o rnd

\* Horner's rule over the reversed coefficients: head is the last
\* coefficient, the fold runs down to the first.  k is the number of
\* coefficients already folded in, counted from the end.
RECURSIVE horner_fold(_, _, _)
horner_fold(coefficients, point, k) ==
    IF k = 1
    THEN coefficients[Len(coefficients)]
    ELSE LET partial == horner_fold(coefficients, point, k - 1)
             coef == coefficients[Len(coefficients) - k + 1]
             partial_times_point == fe_mul(partial, point)
         IN  fe_add(partial_times_point, coef)

\* Horner's rule with the head coefficient folded in a second time
mod_evaluate_polynomial_head_twice(coefficients, point) ==
    horner_fold(coefficients \o <<coefficients[Len(coefficients)]>>, point,
                Len(coefficients) + 1)

mod_evaluate_polynomial(coefficients, point) ==
    horner_fold(coefficients, point, Len(coefficients))

\* evaluate_polynomial over the points 0 .. n-1 instead of 1 .. n
evaluate_polynomial_from_zero(n, coefficients) ==
    [point \in 1 .. n |->
        mod_evaluate_polynomial(coefficients, fe_from(point - 1))]

evaluate_polynomial(n, coefficients) ==
    [point \in 1 .. n |-> mod_evaluate_polynomial(coefficients, fe_from(point))]

share_commitments(coefficients) ==
    [i \in 1 .. Len(coefficients) |-> ge_mul(generator, coefficients[i])]

\* the fold of num: every point but the i-th multiplied together
RECURSIVE num_fold(_, _, _)
num_fold(points, i, k) ==
    IF k = 0
    THEN fe_from(1)
    ELSE LET acc == num_fold(points, i, k - 1)
         IN  IF i # k THEN fe_mul(acc, points[k]) ELSE acc

\* denum_fold with the difference taken the other way round (x_i - x_j)
RECURSIVE denum_fold_swapped(_, _, _)
denum_fold_swapped(points, i, k) ==
    IF k = 0
    THEN fe_from(1)
    ELSE LET acc == denum_fold_swapped(points, i, k - 1)
         IN  IF i # k
             THEN fe_mul(acc, fe_sub(points[i], points[k]))
             ELSE acc

\* the fold of denum: every (x_j - x_i), j # i, multiplied together
RECURSIVE denum_fold(_, _, _)
denum_fold(points, i, k) ==
    IF k = 0
    THEN fe_from(1)
    ELSE LET acc == denum_fold(points, i, k - 1)
         IN  IF i # k
             THEN LET xj_sub_xi == fe_sub(points[k], points[i])
                  IN  fe_mul(acc, xj_sub_xi)
             ELSE acc

RECURSIVE sum_fold(_, _)
sum_fold(s, k) ==
    IF k = 1 THEN s[1] ELSE fe_add(sum_fold(s, k - 1), s[k])

\* lagrange_interpolation_at_zero over an invert that returns zero for
\* zero instead of failing: the terms go on into the sum
lagrange_interpolation_at_zero_unguarded(points, values) ==
    LET vec_len == Len(values)
        inv(a) == IF a = 0 THEN 0 ELSE fe_invert(a)
        lag_coef == [i \in 1 .. vec_len |->
                        fe_mul(fe_mul(num_fold(points, i, vec_len),
                                      inv(denum_fold(points, i, vec_len))),
                               values[i])]
    IN  IF Len(points) # vec_len THEN Abort
        ELSE IF vec_len = 0 THEN Abort
        ELSE Ret(sum_fold(lag_coef, vec_len))

lagrange_interpolation_at_zero(points, values) ==
    LET vec_len == Len(values)
        denum(i) == denum_fold(points, i, vec_len)
        lag_coef == [i \in 1 .. vec_len |->
                        fe_mul(fe_mul(num_fold(points, i, vec_len),
                                      fe_invert(denum(i))),
                               values[i])]
    IN  IF Len(points) # vec_len THEN Abort
        ELSE IF \E i \in 1 .. vec_len : denum(i) = 0 THEN Abort
        ELSE IF vec_len = 0 THEN Abort
        ELSE Ret(sum_fold(lag_coef, vec_len))

reconstruct(v, indices, shares) ==
    IF Len(shares) # Len(indices) THEN Abort
    ELSE IF ~(Len(shares) >= reconstruct_limit(v)) THEN Abort
    ELSE LET points == [k \in 1 .. Len(indices) |-> fe_from(indices[k] + 1)]
         IN  lagrange_interpolation_at_zero(points, shares)

\* the fold over the commitments without the reversal: head is C_0
RECURSIVE comm_fold_forward(_, _, _)
comm_fold_forward(commitments, index_fe, k) ==
    IF k = 1
    THEN commitments[1]
    ELSE LET acc == comm_fold_forward(commitments, index_fe, k - 1)
             x == commitments[k]
         IN  ge_add(x, ge_mul(acc, index_fe))

\* the fold over the reversed commitments: x + acc * index
RECURSIVE comm_fold(_, _, _)
comm_fold(commitments, index_fe, k) ==
    IF k = 1
    THEN commitments[Len(commitments)]
    ELSE LET acc == comm_fold(commitments, index_fe, k - 1)
             x == commitments[Len(commitments) - k + 1]
         IN  ge_add(x, ge_mul(acc, index_fe))

\* validate_share taking the 1-based index for a 0-based one
validate_share_zero_based(v, secret_share, index) ==
    LET index_fe == fe_from(index - 1)
        ss_point == ge_mul(generator, secret_share)
    IN  IF Len(v.commitments) = 0 THEN Abort
        ELSE LET comm_to_point ==
                     comm_fold(v.commitments, index_fe, Len(v.commitments))
             IN  IF ss_point = comm_to_point
                 THEN Ok
                 ELSE Err("VerifyShareError")

validate_share(v, secret_share, index) ==
    LET index_fe == fe_from(index)
        ss_point == ge_mul(generator, secret_share)
    IN  IF Len(v.commitments) = 0 THEN Abort
        ELSE LET comm_to_point ==
                     comm_fold(v.commitments, index_fe, Len(v.commitments))
             IN  IF ss_point = comm_to_point
                 THEN Ok
                 ELSE Err("VerifyShareError")

\* the two folds over s: the points of the members of s other than index
RECURSIVE map_num_fold(_, _, _, _)
map_num_fold(points, index, s, k) ==
    IF k = 0
    THEN fe_from(1)
    ELSE LET acc == map_num_fold(points, index, s, k - 1)
         IN  IF s[k] # index THEN fe_mul(acc, points[s[k] + 1]) ELSE acc

\* map_denum_fold with the difference taken the other way round
RECURSIVE map_denum_fold_swapped(_, _, _, _)
map_denum_fold_swapped(points, index, s, k) ==
    IF k = 0
    THEN fe_from(1)
    ELSE LET acc == map_denum_fold_swapped(points, index, s, k - 1)
         IN  IF s[k] # index
             THEN fe_mul(acc, fe_sub(points[index + 1], points[s[k] + 1]))
             ELSE acc

RECURSIVE map_denum_fold(_, _, _, _)
map_denum_fold(points, index, s, k) ==
    IF k = 0
    THEN fe_from(1)
    ELSE LET acc == map_denum_fold(points, index, s, k - 1)
         IN  IF s[k] # index
             THEN LET xj_sub_xi == fe_sub(points[s[k] + 1], points[index + 1])
                  IN  fe_mul(acc, xj_sub_xi)
             ELSE acc

\* index and the members of s are 0-based; points[i + 1] models points[i]
map_share_to_new_params(v, index, s) ==
    LET s_len == Len(s)
        points == [i \in 1 .. v.share_count |-> fe_from((i - 1) + 1)]
        out_of_bounds(i) == ~(i < v.share_count)
    IN  IF ~(s_len > reconstruct_limit(v)) THEN Abort
        ELSE IF out_of_bounds(index) THEN Abort
        ELSE IF \E k \in 1 .. s_len : s[k] # index /\ out_of_bounds(s[k])
             THEN Abort
        ELSE LET num == map_num_fold(points, index, s, s_len)
                 denum == map_denum_fold(points, index, s, s_len)
             IN  IF denum = 0 THEN Abort
                 ELSE Ret(fe_mul(num, fe_invert(denum)))

share(t, n, secret_fe, rnd) ==
    LET coefficients == sample_polynomial(t, secret_fe, rnd)
    IN  [vss |-> [threshold |-> t, share_count |-> n,
                  commitments |-> share_commitments(coefficients)],
         secret_shares |-> evaluate_polynomial(n, coefficients),
         poly |-> coefficients]

(***************************************************************************)
(* secp256_k1.rs: the key codecs.  A BigInt is a non-negative integer,     *)
(* represented by its big-endian bytes without leading zero bytes (zero is *)
(* the empty string); a byte is a number in 0 .. 255.  A SecretKey is its  *)
(* 32 bytes, a Point its two coordinates.                                  *)
(***************************************************************************)
SECRET_KEY_SIZE == 32
KEY_SIZE == 65
HEADER_MARKER == 4
\* secp256k1::constants::CURVE_ORDER
CURVE_ORDER ==
    <<255, 255, 255, 255, 255, 255, 255, 255,
      255, 255, 255, 255, 255, 255, 255, 254,
      186, 174, 220, 230, 175, 72, 160, 59,
      191, 210, 94, 140, 208, 54, 65, 65>>

Rep(b, k) == [i \in 1 .. k |-> b]

\* BigInt::from(&[u8]): the value of big-endian bytes
RECURSIVE BigInt_from(_)
BigInt_from(bytes) ==
    IF bytes = <<>> THEN <<>>
    ELSE IF bytes[1] = 0 THEN BigInt_from(Tail(bytes))
    ELSE bytes

\* BigInt::to_vec: the big-endian bytes of the value, as many as it needs
\* (one zero byte for zero)
BigInt_to_vec(n) == IF n = <<>> THEN <<0>> ELSE n

\* a < b, for BigInts
RECURSIVE bytes_less(_, _)
bytes_less(a, b) ==
    IF a = <<>> THEN FALSE
    ELSE IF a[1] # b[1] THEN a[1] < b[1]
    ELSE bytes_less(Tail(a), Tail(b))

BigInt_less(a, b) ==
    IF Len(a) # Len(b) THEN Len(a) < Len(b) ELSE bytes_less(a, b)

\* SecretKey::from_slice of the secp256k1 crate: 32 bytes whose value is
\* nonzero and below the curve order, or Err(InvalidSecretKey)
SecretKey_from_slice(data) ==
    IF Len(data) # SECRET_KEY_SIZE THEN Err("InvalidSecretKey")
    ELSE IF BigInt_from(data) = <<>> THEN Err("InvalidSecretKey")
    ELSE IF ~BigInt_less(BigInt_from(data), BigInt_from(CURVE_ORDER))
         THEN Err("InvalidSecretKey")
    ELSE Ret(data)

from_big_int(n) ==
    LET v0 == BigInt_to_vec(n)
        v == IF Len(v0) < SECRET_KEY_SIZE
             THEN Rep(0, SECRET_KEY_SIZE - Len(v0)) \o v0
             ELSE v0
        r == SecretKey_from_slice(v)
    IN  IF r.tag = "ok" THEN r ELSE Abort

to_big_int(sk) == BigInt_from(SubSeq(sk, 1, Len(sk)))

get_q == BigInt_from(CURVE_ORDER)

\* from_key_slice without the check of the header byte
from_key_slice_any_header(key) ==
    IF Len(key) # KEY_SIZE THEN Abort
    ELSE LET x == SubSeq(key, 1 + 1, (Len(key) \div 2) + 1)
             y == SubSeq(key, ((Len(key) - 1) \div 2) + 1 + 1, Len(key))
         IN  Ret([x |-> BigInt_from(x), y |-> BigInt_from(y)])

\* key[a..b] of Rust is SubSeq(key, a + 1, b)
from_key_slice(key) ==
    IF Len(key) # KEY_SIZE THEN Abort
    ELSE LET header == key[1]
         IN  IF header # HEADER_MARKER THEN Abort
             ELSE LET x == SubSeq(key, 1 + 1, (Len(key) \div 2) + 1)
                      y == SubSeq(key, ((Len(key) - 1) \div 2) + 1 + 1, Len(key))
                  IN  Ret([x |-> BigInt_from(x), y |-> BigInt_from(y)])

to_key_slice(p) ==
    <<HEADER_MARKER>> \o BigInt_to_vec(p.x) \o BigInt_to_vec(p.y)

(***************************************************************************)
(* Inputs of the calls.                                                    *)
(***************************************************************************)
RECURSIVE Ascending(_)
Ascending(S) ==
    IF S = {} THEN <<>>
    ELSE LET m == CHOOSE x \in S : \A y \in S : x <= y
         IN  <<m>> \o Ascending(S \ {m})

Reverse(s) == [k \in 1 .. Len(s) |-> s[Len(s) - k + 1]]

\* index lists handed to reconstruct: every set of 0-based indices below n
\* in ascending and in descending order, and with its first index repeated
IndexLists(n) ==
    LET sets == SUBSET (0 .. (n - 1))
    IN  {Ascending(S) : S \in sets}
        \cup {Reverse(Ascending(S)) : S \in sets}
        \cup {Ascending(S) \o <<Ascending(S)[1]>> : S \in sets \ {{}}}

\* the shares the holders of `indices` were dealt, in the order of `indices`
HonestShares(indices) ==
    [k \in 1 .. Len(indices) |-> secret_shares[indices[k] + 1]]

\* share lists handed to reconstruct with `indices`: the holders' shares,
\* the same with the last one missing, the same with one share too many
ShareLists(indices) ==
    LET h == HonestShares(indices)
    IN  {h}
        \cup (IF Len(h) > 0 THEN {SubSeq(h, 1, Len(h) - 1), h \o <<h[1]>>} ELSE {})

\* v with commitment k (0-based) replaced by c
WithCommitment(v, k, c) ==
    [v EXCEPT !.commitments = [v.commitments EXCEPT ![k + 1] = c]]

Coefficients(t) == [1 .. t -> RandomFE]

(***************************************************************************)
(* The state machine of a dealer run.  The library keeps no state between  *)
(* calls and no function reads `call` or `ret`, so a behaviour is one      *)
(* sharing followed by one call on it.                                     *)
(***************************************************************************)
Init ==
    /\ vss = NoVSS
    /\ secret = 0
    /\ poly = <<>>
    /\ secret_shares = <<>>
    /\ call = NoCall
    /\ ret = NoRet

\* the dealer run: (vss, secret_shares) = VerifiableSS::share(t, n, &secret)
Share ==
    /\ call = NoCall
    /\ \E t \in 0 .. MaxT, n \in 0 .. MaxN, s \in FE :
         \E rnd \in Coefficients(t) :
            LET r == share(t, n, s, rnd)
            IN  /\ vss' = r.vss
                /\ secret' = s
                /\ poly' = r.poly
                /\ secret_shares' = r.secret_shares
                /\ call' = [fn |-> "share", t |-> t, n |-> n]
                /\ ret' = Ret(<<r.vss, r.secret_shares>>)

\* vss.reconstruct(&indices, &shares)
Reconstruct ==
    /\ call.fn = "share"
    /\ \E indices \in IndexLists(vss.share_count) :
         \E shares \in ShareLists(indices) :
            /\ call' = [fn |-> "reconstruct", indices |-> indices,
                                             shares |-> shares]
            /\ ret' = reconstruct(vss, indices, shares)
    /\ UNCHANGED <<vss, secret, poly, secret_shares>>

\* v.validate_share(&secret_share, &index), v being the published sharing
\* or the published sharing with one commitment replaced
ValidateShare ==
    /\ call.fn = "share"
    /\ \E index \in 1 .. vss.share_count :
         \E a \in
               {<<vss, x>> : x \in FE}
               \cup {<<WithCommitment(vss, k, c), secret_shares[index]>> :
                        k \in 0 .. vss.threshold, c \in GE} :
            /\ call' = [fn |-> "validate_share", v |-> a[1],
                        secret_share |-> a[2], index |-> index]
            /\ ret' = validate_share(a[1], a[2], index)
    /\ UNCHANGED <<vss, secret, poly, secret_shares>>

\* vss.map_share_to_new_params(&index, &s)
MapShareToNewParams ==
    /\ call.fn = "share"
    /\ \E index \in 0 .. (vss.share_count - 1) :
         \E S \in SUBSET (0 .. (vss.share_count - 1)) :
            /\ call' = [fn |-> "map_share_to_new_params", index |-> index,
                        s |-> Ascending(S)]
            /\ ret' = map_share_to_new_params(vss, index, Ascending(S))
    /\ UNCHANGED <<vss, secret, poly, secret_shares>>

Next ==
    \/ Share
    \/ Reconstruct
    \/ ValidateShare
    \/ MapShareToNewParams

Spec == Init /\ [][Next]_vars

(***************************************************************************)
(* The codec calls and their inputs.                                       *)
(***************************************************************************)
\* coordinates below 2^256: zero, and the values of 1, 2, 31 and 32 bytes
\* with the first byte 1 or 255 and the other bytes all 0 or all 255
CoordInputs ==
    {<<>>} \cup {<<b>> \o Rep(f, w - 1) :
                    b \in {1, 255}, f \in {0, 255}, w \in {1, 2, 31, 32}}

PointInputs == [x : CoordInputs, y : CoordInputs]

\* byte buffers: a marker byte and two coordinate fields of 31, 32 or 33
\* bytes, and the empty buffer
FieldInputs ==
    {Rep(0, 32), Rep(255, 32), <<0>> \o Rep(9, 31), Rep(9, 31), Rep(9, 33)}

KeyInputs ==
    {<<>>} \cup {<<m>> \o xs \o ys :
                    m \in {1, 2, 4, 6}, xs \in FieldInputs, ys \in FieldInputs}

\* valid secret keys: 1, 2^248 - 1, 2^255 - 1, q - 1, and 0x0101..01
SecretKeyInputs ==
    {Rep(0, 31) \o <<1>>, <<0>> \o Rep(255, 31), <<127>> \o Rep(255, 31),
     SubSeq(CURVE_ORDER, 1, 31) \o <<64>>, Rep(1, 32)}

\* integers: 0, 1, 2^248 - 1, q, q + 1, 2^256 - 1, 2^256, and the values
\* of the secret keys
BigIntInputs ==
    {<<>>, <<1>>, Rep(255, 31), CURVE_ORDER, SubSeq(CURVE_ORDER, 1, 31) \o <<66>>,
     Rep(255, 32), <<1>> \o Rep(0, 32)}
    \cup {to_big_int(sk) : sk \in SecretKeyInputs}

FromKeySlice ==
    /\ \E key \in KeyInputs :
          /\ call' = [fn |-> "from_key_slice", key |-> key]
          /\ ret' = from_key_slice(key)
    /\ UNCHANGED <<vss, secret, poly, secret_shares>>

ToKeySlice ==
    /\ \E p \in PointInputs :
          /\ call' = [fn |-> "to_key_slice", p |-> p]
          /\ ret' = Ret(to_key_slice(p))
    /\ UNCHANGED <<vss, secret, poly, secret_shares>>

FromBigInt ==
    /\ \E n \in BigIntInputs :
          /\ call' = [fn |-> "from_big_int", n |-> n]
          /\ ret' = from_big_int(n)
    /\ UNCHANGED <<vss, secret, poly, secret_shares>>

ToBigInt ==
    /\ \E sk \in SecretKeyInputs :
          /\ call' = [fn |-> "to_big_int", sk |-> sk]
          /\ ret' = Ret(to_big_int(sk))
    /\ UNCHANGED <<vss, secret, poly, secret_shares>>

CodecNext ==
    \/ FromKeySlice
    \/ ToKeySlice
    \/ FromBigInt
    \/ ToBigInt

CodecSpec == Init /\ [][CodecNext]_vars

(***************************************************************************)
(* Properties.                                                             *)
(***************************************************************************)
Distinct(s) == \A i, j \in 1 .. Len(s) : i # j => s[i] # s[j]

\* the sets of exactly k 0-based indices below the share count
Quorums(k) == {I \in SUBSET (0 .. (vss.share_count - 1)) : Cardinality(I) = k}

HonestCall ==
    /\ call.fn = "reconstruct"
    /\ Distinct(call.indices)
    /\ call.shares = HonestShares(call.indices)

\* C1: for 1 <= t < n, reconstruct on any t+1 pairwise-distinct indices,
\* each with the share dealt to it, returns exactly the secret; hence every
\* other quorum of t+1 indices reconstructs the same value.
C1_RoundTrip ==
    (/\ HonestCall
     /\ 1 <= vss.threshold
     /\ vss.threshold < vss.share_count
     /\ Len(call.indices) = vss.threshold + 1)
    => /\ ret = Ret(secret)
       /\ \A I \in Quorums(vss.threshold + 1) :
             reconstruct(vss, Ascending(I), HonestShares(Ascending(I))) = ret

C1_Witness ==
    /\ HonestCall
    /\ vss.threshold = 2
    /\ vss.share_count = 3
    /\ call.indices = <<2, 1, 0>>
    /\ secret # 0
    /\ \A j \in 1 .. 3 : secret_shares[j] # secret
    /\ ret = Ret(secret)

\* C2: validate_share accepts every dealt share at its own 1-based index
\* against the published commitments: share * G equals the Horner
\* evaluation of C_t, ..., C_0 at the index.
C2_ValidateHonest ==
    (/\ call.fn = "validate_share"
     /\ call.v = vss
     /\ call.index \in 1 .. vss.share_count
     /\ call.secret_share = secret_shares[call.index])
    => /\ ret = Ok
       /\ ge_mul(generator, call.secret_share)
            = comm_fold(vss.commitments, fe_from(call.index),
                        Len(vss.commitments))

C2_Witness ==
    /\ call.fn = "validate_share"
    /\ call.v = vss
    /\ vss.threshold = 2
    /\ call.index = 3
    /\ call.secret_share = secret_shares[3]
    /\ secret_shares[3] # secret
    /\ ret = Ok

\* C3: with the share at index i replaced by a different scalar, or one
\* commitment replaced by a different group element, validate_share
\* returns Err(VerifyShareError) and does not abort.
C3_ValidateTampered ==
    (/\ call.fn = "validate_share"
     /\ call.index \in 1 .. vss.share_count
     /\ \/ call.v = vss /\ call.secret_share # secret_shares[call.index]
        \/ call.v # vss /\ call.secret_share = secret_shares[call.index])
    => ret = Err("VerifyShareError")

C3_Witness ==
    /\ call.fn = "validate_share"
    /\ vss.threshold = 2
    /\ call.index = 2
    /\ call.secret_share = secret_shares[2]
    /\ call.v.commitments[1] = vss.commitments[1]
    /\ call.v.commitments[2] = vss.commitments[2]
    /\ call.v.commitments[3] # vss.commitments[3]
    /\ ret = Err("VerifyShareError")

\* the Lagrange coefficient of member i of the live set of the call: the
\* value the call returned for its own index, the function's for the others
Lambda(i) ==
    IF i = call.index THEN ret ELSE map_share_to_new_params(vss, i, call.s)

RECURSIVE WeightedSum(_)
WeightedSum(k) ==
    IF k = 0 THEN 0
    ELSE fe_add(WeightedSum(k - 1),
                fe_mul(Lambda(call.s[k]).val, secret_shares[call.s[k] + 1]))

\* C4: for a live set S of more than t+1 distinct indices, the sum over S
\* of map_share_to_new_params(i, S) * shares[i] is the secret, which is
\* what reconstruct returns on every quorum of t+1 indices.
C4_Reparameterization ==
    (/\ call.fn = "map_share_to_new_params"
     /\ Distinct(call.s)
     /\ Len(call.s) > vss.threshold + 1)
    => /\ \A k \in 1 .. Len(call.s) : Lambda(call.s[k]).tag = "ok"
       /\ WeightedSum(Len(call.s)) = secret
       /\ \A I \in Quorums(vss.threshold + 1) :
             reconstruct(vss, Ascending(I), HonestShares(Ascending(I)))
               = Ret(WeightedSum(Len(call.s)))

C4_Witness ==
    /\ call.fn = "map_share_to_new_params"
    /\ vss.threshold = 1
    /\ call.s = <<0, 1, 2>>
    /\ call.index = 1
    /\ ret.tag = "ok"
    /\ secret # 0
    /\ \A j \in 1 .. 3 : secret_shares[j] # secret
    /\ WeightedSum(3) = secret

\* C5: to_key_slice(p) is exactly KEY_SIZE bytes (the marker 4, a 32-byte
\* x field, a 32-byte y field) and from_key_slice(to_key_slice(p)) is p,
\* for every point with coordinates below 2^256.
C5_PointRoundTrip ==
    call.fn = "to_key_slice"
    => /\ Len(ret.val) = KEY_SIZE
       /\ ret.val[1] = HEADER_MARKER
       /\ from_key_slice(ret.val) = Ret(call.p)

\* C6: from_key_slice returns no Point for a buffer whose length is not 65
\* or whose first byte is not 4: the call aborts.
C6_MalformedRejected ==
    (/\ call.fn = "from_key_slice"
     /\ (Len(call.key) # 65 \/ call.key[1] # 4))
    => ret = Abort

C6_Witness ==
    /\ call.fn = "from_key_slice"
    /\ Len(call.key) = 65
    /\ call.key[1] = 1
    /\ ret = Abort

\* C7: reconstruct aborts when the two lists differ in length or hold fewer
\* than t+1 shares; map_share_to_new_params aborts when the live set has at
\* most t+1 members.
C7_FailFast ==
    /\ (/\ call.fn = "reconstruct"
         /\ \/ Len(call.indices) # Len(call.shares)
            \/ Len(call.shares) < vss.threshold + 1)
        => ret = Abort
    /\ (/\ call.fn = "map_share_to_new_params"
         /\ Len(call.s) <= vss.threshold + 1)
        => ret = Abort

C7_Witness ==
    /\ call.fn = "map_share_to_new_params"
    /\ vss.threshold = 1
    /\ vss.share_count = 3
    /\ Len(call.s) = 2
    /\ ret = Abort

\* C8: share(0, n, secret) with n >= 1 returns one commitment and n shares
\* all equal to the secret, and reconstruct on any single (index, share)
\* pair of it returns the secret.
C8_DegenerateThreshold ==
    (call # NoCall /\ vss.threshold = 0 /\ vss.share_count >= 1)
    => /\ Len(vss.commitments) = 1
       /\ Len(secret_shares) = vss.share_count
       /\ \A j \in 1 .. vss.share_count : secret_shares[j] = secret
       /\ (HonestCall /\ Len(call.indices) = 1) => ret = Ret(secret)

C8_Witness ==
    /\ HonestCall
    /\ vss.threshold = 0
    /\ vss.share_count = 3
    /\ call.indices = <<2>>
    /\ secret # 0
    /\ ret = Ret(secret)

\* a - b for byte strings of one length with a >= b, least significant
\* byte last
RECURSIVE bytes_sub(_, _, _)
bytes_sub(a, b, borrow) ==
    IF a = <<>> THEN <<>>
    ELSE LET k == Len(a)
             d == (a[k] - b[k]) - borrow
         IN  bytes_sub(SubSeq(a, 1, k - 1), SubSeq(b, 1, k - 1),
                       IF d < 0 THEN 1 ELSE 0)
             \o <<IF d < 0 THEN d + 256 ELSE d>>

\* n mod q, for n < 2q
BigInt_mod_q(n) ==
    IF BigInt_less(n, get_q) THEN n
    ELSE BigInt_from(bytes_sub(n, Rep(0, Len(n) - Len(get_q)) \o get_q, 0))

\* C9: from_big_int(n) is a scalar whose to_big_int() is n mod q, for every
\* non-negative n; and from_big_int(to_big_int(sk)) is sk.
C9_ScalarCodec ==
    /\ call.fn = "from_big_int"
        => /\ ret.tag = "ok"
           /\ to_big_int(ret.val) = BigInt_mod_q(call.n)
    /\ call.fn = "to_big_int"
        => from_big_int(ret.val) = Ret(call.sk)

\* C10: for 1 <= t < n and at most t share positions J, the share values
\* at J that share can produce are the same whatever the secret: what this
\* sharing dealt at J, share can deal for every other secret too.
C10_Secrecy ==
    (/\ call.fn = "share"
     /\ 1 <= vss.threshold
     /\ vss.threshold < vss.share_count)
    => \A J \in SUBSET (1 .. vss.share_count) :
         Cardinality(J) <= vss.threshold
         => \A s2 \in FE :
              \E rnd \in Coefficients(vss.threshold) :
                 \A j \in J :
                    share(vss.threshold, vss.share_count, s2, rnd)
                        .secret_shares[j] = secret_shares[j]

\* x^k in Z_Q
RECURSIVE fe_pow(_, _)
fe_pow(x, k) == IF k = 0 THEN 1 ELSE (fe_pow(x, k - 1) * x) % Q

\* the sum over i < k of coefficients[i] * x^i in Z_Q (coefficients 0-based)
RECURSIVE PowerSum(_, _, _)
PowerSum(coefficients, x, k) ==
    IF k = 0 THEN 0
    ELSE (PowerSum(coefficients, x, k - 1)
          + coefficients[k] * fe_pow(x, k - 1)) % Q

\* C11: share(t, n, secret) returns the parameters (t, n), exactly t+1
\* commitments with commitments[k] = coefficients[k] * G in coefficient
\* order (coefficients[0] the secret), and exactly n shares with
\* shares[j] = sum over k of coefficients[k] * (j+1)^k mod q, j in [0, n);
\* no share is the evaluation at x = 0.
C11_ShareShape ==
    call.fn = "share"
    => /\ vss.threshold = call.t
       /\ vss.share_count = call.n
       /\ ret = Ret(<<vss, secret_shares>>)
       /\ Len(poly) = call.t + 1
       /\ poly[1] = secret
       /\ Len(vss.commitments) = call.t + 1
       /\ \A k \in 0 .. call.t :
             vss.commitments[k + 1] = (poly[k + 1] * generator) % Q
       /\ vss.commitments[1] = (secret * generator) % Q
       /\ Len(secret_shares) = call.n
       /\ \A j \in 0 .. (call.n - 1) :
             /\ (j + 1) % Q # 0
             /\ secret_shares[j + 1] = PowerSum(poly, (j + 1) % Q, call.t + 1)

C11_Witness ==
    /\ call.fn = "share"
    /\ call.t = 2
    /\ call.n = 4
    /\ secret = 3
    /\ poly = <<3, 5, 6>>
    /\ secret_shares = <<0, 2, 2, 0>>
    /\ vss.commitments = <<3, 5, 6>>

\* the evaluation points reconstruct derives from the indices of the call
CallPoints ==
    [k \in 1 .. Len(call.indices) |-> (call.indices[k] + 1) % Q]

\* the denominators the call handed to invert, one per term
InvertArguments ==
    {denum_fold(CallPoints, i, Len(call.indices)) :
        i \in 1 .. Len(call.indices)}

====
